---- MODULE Spec2Model ----
(***************************************************************************)
(* Model of the debt payoff simulator of debt_dashboard.py: the sidebar    *)
(* assumptions, order_debts, next_month and the month loop of simulate.    *)
(*                                                                         *)
(* Money is fixed-point, in thousandths of a dollar (1 dollar = 1000), so  *)
(* the paid-off threshold 0.01 is 10.  Rates are annual percentages, so    *)
(* balance * (rate / 12) is balance * Rate / 1200, rounded down to the     *)
(* money unit.  Dates are records [year, month, day].                      *)
(***************************************************************************)
EXTENDS Integers, Sequences, FiniteSets, TLC

VARIABLES
    dframe,        \* the edited debt table handed to simulate (never mutated)
    strategy,      \* sidebar radio
    extra_budget,  \* sidebar number_input
    min_floor,     \* sidebar number_input
    max_months,    \* sidebar number_input
    start_date,    \* sidebar date_input
    pc,            \* "start" | "loop" | "done": position inside simulate
    d,             \* simulate's working copy of the table
    month,         \* simulate's month counter
    current_date,  \* simulate's simulated date
    history,       \* simulate's list of monthly records
    last,          \* the per-debt vectors computed by the latest iteration
    result         \* the final per-debt result, <<>> until simulate returns

vars == <<dframe, strategy, extra_budget, min_floor, max_months, start_date,
          pc, d, month, current_date, history, last, result>>

----------------------------------------------------------------------------
(* Bounds of the model *)

MaxDebts == 2
MaxMonths == 3

(* Program constants *)

THRESH == 10             \* 0.01 dollars
DefaultMaxMonths == 600  \* number_input(..., value=600, ...)

Snowball == "Debt Snowball (smallest balance first)"
Avalanche == "Debt Avalanche (highest rate first)"
Strategies == {Snowball, Avalanche}

Min(a, b) == IF a <= b THEN a ELSE b
Max(a, b) == IF a >= b THEN a ELSE b

RECURSIVE SumTo(_, _)
SumTo(f, n) == IF n = 0 THEN 0 ELSE f[n] + SumTo(f, n - 1)
Sum(f) == SumTo(f, Len(f))

----------------------------------------------------------------------------
(* Dates *)

MkDate(y, m, dd) == [year |-> y, month |-> m, day |-> dd]

IsLeap(y) == (y % 4 = 0 /\ y % 100 # 0) \/ y % 400 = 0

DaysInMonth(y, m) ==
    IF m = 2 THEN (IF IsLeap(y) THEN 29 ELSE 28)
    ELSE IF m \in {4, 6, 9, 11} THEN 30 ELSE 31

\* datetime(y, m, day) raises ValueError when the day does not exist
ValidDate(y, m, dd) == m \in 1..12 /\ dd \in 1..DaysInMonth(y, m)

\* datetime(y, m, 1) - timedelta(days=1)
DayBeforeFirst(y, m) ==
    IF m = 1 THEN MkDate(y - 1, 12, 31)
    ELSE MkDate(y, m - 1, DaysInMonth(y, m - 1))

next_month(dt) ==
    IF dt.month = 12 THEN MkDate(dt.year + 1, 1, dt.day)
    ELSE IF ValidDate(dt.year, dt.month + 1, dt.day)
         THEN MkDate(dt.year, dt.month + 1, dt.day)
         ELSE DayBeforeFirst(dt.year, dt.month + 1)

----------------------------------------------------------------------------
(* Strategy ordering *)

\* mutant: the balance sorted descending
SnowballBefore_Desc(dd, i, j) ==
    \/ dd[i].Balance > dd[j].Balance
    \/ dd[i].Balance = dd[j].Balance /\ dd[i].Rate > dd[j].Rate
    \/ dd[i].Balance = dd[j].Balance /\ dd[i].Rate = dd[j].Rate /\ i < j

\* sort_values(["Balance", "Rate"], ascending=[True, False]); equal keys keep
\* their row order
SnowballBefore(dd, i, j) ==
    \/ dd[i].Balance < dd[j].Balance
    \/ dd[i].Balance = dd[j].Balance /\ dd[i].Rate > dd[j].Rate
    \/ dd[i].Balance = dd[j].Balance /\ dd[i].Rate = dd[j].Rate /\ i < j

\* sort_values(["Rate", "Balance"], ascending=[False, True])
AvalancheBefore(dd, i, j) ==
    \/ dd[i].Rate > dd[j].Rate
    \/ dd[i].Rate = dd[j].Rate /\ dd[i].Balance < dd[j].Balance
    \/ dd[i].Rate = dd[j].Rate /\ dd[i].Balance = dd[j].Balance /\ i < j

Before(dd, s, i, j) ==
    IF s = Snowball THEN SnowballBefore(dd, i, j) ELSE AvalancheBefore(dd, i, j)

\* the row indices in sorted order
order_debts(dd, s) ==
    [k \in 1..Len(dd) |->
        CHOOSE i \in 1..Len(dd) :
            Cardinality({j \in 1..Len(dd) : Before(dd, s, j, i)}) = k - 1]

----------------------------------------------------------------------------
(* The steps of one loop iteration *)

\* d.loc[d["Payment"] <= 0, "Payment"] = min_floor
Normalize(df, floor) ==
    [i \in 1..Len(df) |->
        IF df[i].Payment <= 0 THEN [df[i] EXCEPT !.Payment = floor] ELSE df[i]]

\* the Balance column
Balances(dd) == [i \in 1..Len(dd) |-> dd[i].Balance]

\* (d["Balance"] > 0.01).any()
AnyUnpaid(dd) == \E i \in 1..Len(dd) : dd[i].Balance > THRESH

\* mutant: month <= max_months
LoopCond_OffByOne(mon, maxm, dd) == mon <= maxm /\ AnyUnpaid(dd)

\* while month < max_months and (d["Balance"] > 0.01).any()
LoopCond(mon, maxm, dd) == mon < maxm /\ AnyUnpaid(dd)

\* mutant: the annual rate divided by 365 instead of 12
Interest_Daily(bal, rate) == (bal * rate) \div 36500

\* d["Balance"] * (d["Rate"] / 12.0)
Interest(bal, rate) == (bal * rate) \div 1200

\* d["Payment"].clip(lower=0.0)
BasePay(pay) == Max(pay, 0)

\* mutant: the first debt in order, paid off or not
FocusIdx_First(dd, order) == order[1]

\* first index in order whose balance is > 0.01; 0 stands for None
FocusIdx(dd, order) ==
    IF \E k \in 1..Len(order) : dd[order[k]].Balance > THRESH
    THEN order[CHOOSE k \in 1..Len(order) :
                  /\ dd[order[k]].Balance > THRESH
                  /\ \A k2 \in 1..(k - 1) : dd[order[k2]].Balance <= THRESH]
    ELSE 0

\* mutant: extra_budget != 0 instead of > 0
ExtraVec_Nonzero(dd, focus, eb) ==
    [i \in 1..Len(dd) |-> IF focus # 0 /\ eb # 0 /\ i = focus THEN eb ELSE 0]

\* extra_vec: extra_budget on the focus row, 0.0 elsewhere
ExtraVec(dd, focus, eb) ==
    [i \in 1..Len(dd) |-> IF focus # 0 /\ eb > 0 /\ i = focus THEN eb ELSE 0]

\* mutant: the minimum payment left out
TotalPay_NoBase(base, extra, ev) == extra + ev

\* base_pay + d["Extra"] + extra_vec
TotalPay(base, extra, ev) == base + extra + ev

\* d["Balance"] + interest
PayoffCap(bal, int) == bal + int

\* mutant: the payment is not clipped
Applied_NoCap(total, cap) == total

\* total_pay.clip(upper=payoff_cap)
Applied(total, cap) == Min(total, cap)

\* (d["Balance"] + interest - applied).clip(lower=0.0)
NewBalance(bal, int, app) == Max(bal + int - app, 0)

NoVectors == [focus |-> 0, prevBal |-> <<>>, interest |-> <<>>,
              base_pay |-> <<>>, extra_vec |-> <<>>, total_pay |-> <<>>,
              applied |-> <<>>]

\* all the vectors of one iteration, from the table at the start of the month
\* and the focus chosen for it
Vectors(dd, focus, eb) ==
    LET n == Len(dd)
        int == [i \in 1..n |-> Interest(dd[i].Balance, dd[i].Rate)]
        base == [i \in 1..n |-> BasePay(dd[i].Payment)]
        ev == ExtraVec(dd, focus, eb)
        total == [i \in 1..n |-> TotalPay(base[i], dd[i].Extra, ev[i])]
        app == [i \in 1..n |->
                   Applied(total[i], PayoffCap(dd[i].Balance, int[i]))]
    IN [focus |-> focus,
        prevBal |-> Balances(dd),
        interest |-> int, base_pay |-> base, extra_vec |-> ev,
        total_pay |-> total, applied |-> app]

\* mutant: the requested payments summed instead of the applied ones
Record_TotalPay(dd, v, newBal, mon, date) ==
    [Date |-> date, Month |-> mon,
     TotalBalance |-> Sum(newBal),
     TotalInterest |-> Sum(v.interest),
     TotalPayment |-> Sum(v.total_pay),
     FocusDebt |-> IF v.focus # 0 THEN dd[v.focus].Name ELSE ""]

\* the record appended to history
Record(dd, v, newBal, mon, date) ==
    [Date |-> date, Month |-> mon,
     TotalBalance |-> Sum(newBal),
     TotalInterest |-> Sum(v.interest),
     TotalPayment |-> Sum(v.applied),
     FocusDebt |-> IF v.focus # 0 THEN dd[v.focus].Name ELSE ""]

\* result["Ending Balance"], result["Is Paid"]
FinalResult(df, dd) ==
    [i \in 1..Len(df) |->
        [Name |-> df[i].Name, EndingBalance |-> dd[i].Balance,
         IsPaid |-> dd[i].Balance <= THRESH]]

----------------------------------------------------------------------------
(* Inputs *)

Names == <<"A", "B", "C">>

Debt(b, r, p, e) == [Balance |-> b, Rate |-> r, Payment |-> p, Extra |-> e]

BalanceValues == {8, 5004}
Rates == {0, 24}
PayProfiles == {<<0, 0>>, <<0, 500>>, <<2500, 0>>}  \* <<Payment, Extra>>

Rows == {Debt(b, r, pe[1], pe[2]) : b \in BalanceValues, r \in Rates,
                                    pe \in PayProfiles}

Named(rows) ==
    [i \in 1..Len(rows) |->
        [Name |-> Names[i], Balance |-> rows[i].Balance, Rate |-> rows[i].Rate,
         Payment |-> rows[i].Payment, Extra |-> rows[i].Extra]]

Tables == UNION {{Named(t) : t \in [1..n -> Rows]} : n \in 1..MaxDebts}

StartDates == {MkDate(2023, 12, 15), MkDate(2024, 1, 31)}

\* spec section 8, scenario 6: one debt of 1200 at 12%, Payment 100
OneDebtTable == Named(<<Debt(1200000, 12, 100000, 0)>>)

\* spec section 8, scenario 7: A 500 at 0% with no Payment, B 5000 at 20%
TwoDebtTable == Named(<<Debt(500000, 0, 0, 0), Debt(5000000, 20, 50000, 0)>>)

IsOneDebtScenario ==
    /\ dframe = OneDebtTable /\ extra_budget = 0 /\ min_floor = 0
    /\ max_months = DefaultMaxMonths /\ strategy = Avalanche

IsTwoDebtScenario ==
    /\ dframe = TwoDebtTable /\ extra_budget = 200000 /\ min_floor = 25000
    /\ max_months = DefaultMaxMonths /\ strategy = Snowball

\* the state before simulate(edited) is called
Entry ==
    /\ pc = "start"
    /\ d = dframe
    /\ month = 0
    /\ current_date = start_date
    /\ history = <<>>
    /\ last = NoVectors
    /\ result = <<>>

\* the sidebar widgets: min_value=0.0, min_value=1, min_value=0.0
InitGeneric ==
    /\ dframe \in Tables
    /\ strategy \in Strategies
    /\ extra_budget \in {0, 2000}
    /\ min_floor \in {0, 250}
    /\ max_months \in 1..MaxMonths
    /\ start_date = MkDate(2024, 1, 31)

InitScenarios ==
    /\ start_date \in StartDates
    /\ \/ /\ dframe = OneDebtTable
          /\ extra_budget = 0 /\ min_floor = 0
          /\ max_months = DefaultMaxMonths /\ strategy = Avalanche
       \/ /\ dframe = TwoDebtTable
          /\ extra_budget = 200000 /\ min_floor = 25000
          /\ max_months = DefaultMaxMonths /\ strategy = Snowball

Init == (InitGeneric \/ InitScenarios) /\ Entry

----------------------------------------------------------------------------
(* simulate *)

\* lines 59-69: copy the table, normalise the payments, reset the loop state
Start ==
    /\ pc = "start"
    /\ d' = Normalize(dframe, min_floor)
    /\ history' = <<>>
    /\ month' = 0
    /\ current_date' = start_date
    /\ pc' = "loop"
    /\ UNCHANGED <<dframe, strategy, extra_budget, min_floor, max_months,
                   start_date, last, result>>

\* lines 71-112: one iteration of the while loop
Month ==
    /\ pc = "loop"
    /\ LoopCond(month, max_months, d)
    /\ \E focus_idx \in {FocusIdx(d, order_debts(d, strategy))} :
          last' = Vectors(d, focus_idx, extra_budget)
    /\ d' = [i \in 1..Len(d) |->
                [d[i] EXCEPT !.Balance = NewBalance(d[i].Balance,
                                                    last'.interest[i],
                                                    last'.applied[i])]]
    /\ history' = Append(history, Record(d, last', Balances(d'), month,
                                         current_date))
    /\ month' = month + 1
    /\ current_date' = next_month(current_date)
    /\ UNCHANGED <<dframe, strategy, extra_budget, min_floor, max_months,
                   start_date, pc, result>>

\* lines 71, 114-120: the loop condition fails; build the result and return
Finish ==
    /\ pc = "loop"
    /\ ~LoopCond(month, max_months, d)
    /\ result' = FinalResult(dframe, d)
    /\ pc' = "done"
    /\ UNCHANGED <<dframe, strategy, extra_budget, min_floor, max_months,
                   start_date, d, month, current_date, history, last>>

Next == Start \/ Month \/ Finish

Spec == Init /\ [][Next]_vars

\* simulate called with assumptions the widgets would not produce: at least
\* one of max_months <= 0, extra_budget < 0, min_floor < 0
InvalidAssumptions == max_months <= 0 \/ extra_budget < 0 \/ min_floor < 0

InitAny ==
    /\ dframe \in Tables
    /\ strategy \in Strategies
    /\ extra_budget \in {-2000, 0, 2000}
    /\ min_floor \in {-250, 0, 250}
    /\ max_months \in (-1)..MaxMonths
    /\ start_date = MkDate(2024, 1, 31)
    /\ InvalidAssumptions
    /\ Entry

SpecAny == InitAny /\ [][Next]_vars

\* simulate is a synchronous loop: a step that can be taken is taken
LiveSpec == Spec /\ WF_vars(Next)

----------------------------------------------------------------------------
(* Properties *)

Debts == 1..Len(dframe)

\* a month has been simulated: last holds its vectors
Simulated == month >= 1

\* C1: with non-negative inputs every balance stays >= 0 after every month
\* and in the final result, and the applied payment of a debt never exceeds
\* its balance plus that month's interest.
C1_NoNegativeBalance ==
    /\ \A i \in Debts : d[i].Balance >= 0
    /\ Simulated =>
          \A i \in Debts :
              last.applied[i] <= last.prevBal[i] + last.interest[i]
    /\ pc = "done" => \A i \in Debts : result[i].EndingBalance >= 0

\* the overpay cap has acted: a debt was asked to pay more than it owed
C1_Witness ==
    /\ Simulated
    /\ \E i \in Debts :
          /\ last.prevBal[i] > 0
          /\ last.total_pay[i] > last.prevBal[i] + last.interest[i]
          /\ d[i].Balance = 0

AllPaid == \A i \in Debts : d[i].Balance <= THRESH

\* C2: simulate terminates; the schedule has one record per simulated month
\* and at most max_months of them; no record is appended once every balance
\* is <= 0.01 (so an input with all balances <= 0.01 has an empty schedule);
\* the loop is left exactly when month = max_months or all balances are
\* <= 0.01; a schedule shorter than max_months means all debts are paid.
C2_Termination ==
    /\ [](/\ Len(history) = month
          /\ month <= max_months
          /\ pc = "done" => (month = max_months \/ AllPaid)
          /\ (pc = "done" /\ Len(history) < max_months) =>
                \A i \in Debts : result[i].EndingBalance <= THRESH
          /\ (\A i \in Debts : dframe[i].Balance <= THRESH) => history = <<>>)
    /\ [][/\ AllPaid => history' = history
          /\ (pc = "loop" /\ (month = max_months \/ AllPaid)) => pc' = "done"
          /\ (pc = "loop" /\ month < max_months /\ ~AllPaid) =>
                (pc' = "loop" /\ Len(history') = Len(history) + 1)]_vars
    /\ <>(pc = "done")

\* a run that stopped early because everything was paid
C2_Witness ==
    /\ pc = "done"
    /\ Len(history) >= 1
    /\ Len(history) < max_months
    /\ AllPaid

\* the date one calendar month later, the day clamped to the target month
ClampedNext(dt) ==
    LET y == IF dt.month = 12 THEN dt.year + 1 ELSE dt.year
        m == IF dt.month = 12 THEN 1 ELSE dt.month + 1
    IN MkDate(y, m, Min(dt.day, DaysInMonth(y, m)))

\* C3: the Date of consecutive schedule records advances by exactly one
\* calendar month, the day kept when it exists in the target month and
\* clamped to the target month's last day otherwise (Jan 31 -> Feb 28/29).
C3_DateAdvance ==
    /\ history # <<>> => history[1].Date = start_date
    /\ \A n \in 1..(Len(history) - 1) :
          history[n + 1].Date = ClampedNext(history[n].Date)
    /\ pc # "start" /\ Simulated =>
          current_date = ClampedNext(history[Len(history)].Date)

\* C4 as stated: once a debt's balance is <= 0.01 at the end of a month, its
\* applied payment is not positive in the following months.
C4_PayoffIdempotence ==
    [][(pc = "loop" /\ Simulated /\ month' = month + 1) =>
          \A i \in Debts :
              d[i].Balance <= THRESH => last'.applied[i] <= 0]_vars

\* C4 amended: once a debt's balance is exactly 0 at the end of a month, its
\* applied payment is 0 and its balance stays 0 in the following months; a
\* debt whose balance is in (0, 0.01] is still paid, at most its balance plus
\* interest.
C4_ZeroStaysZero ==
    [][(pc = "loop" /\ Simulated /\ month' = month + 1) =>
          \A i \in Debts :
              /\ d[i].Balance = 0 =>
                    (last'.applied[i] = 0 /\ d'[i].Balance = 0)
              /\ d[i].Balance <= THRESH =>
                    last'.applied[i] <= d[i].Balance + last'.interest[i]]_vars

\* a cleared debt was asked for its payment again in a later month
C4_Witness ==
    /\ month >= 2
    /\ \E i \in Debts :
          /\ last.prevBal[i] = 0
          /\ last.total_pay[i] > 0
          /\ last.applied[i] = 0

\* the debts with balance > 0.01 at the start of the latest month
Unpaid == {i \in Debts : last.prevBal[i] > THRESH}

\* C5: each month extra_budget goes to at most one debt, the first debt with
\* balance > 0.01 in strategy order over the balances at the start of the
\* month (Snowball: smallest balance, then higher rate; Avalanche: highest
\* rate, then smaller balance); nobody gets it when no balance exceeds 0.01;
\* the record's Focus Debt is that debt's Name.
C5_SingleFocus ==
    Simulated =>
        LET f == last.focus
        IN /\ Unpaid = {} => (f = 0 /\ \A i \in Debts : last.extra_vec[i] = 0)
           /\ Unpaid # {} => f \in Unpaid
           /\ (f # 0 /\ strategy = Snowball) =>
                 \A j \in Unpaid :
                     \/ last.prevBal[f] < last.prevBal[j]
                     \/ /\ last.prevBal[f] = last.prevBal[j]
                        /\ d[f].Rate >= d[j].Rate
           /\ (f # 0 /\ strategy = Avalanche) =>
                 \A j \in Unpaid :
                     \/ d[f].Rate > d[j].Rate
                     \/ /\ d[f].Rate = d[j].Rate
                        /\ last.prevBal[f] <= last.prevBal[j]
           /\ \A i \in Debts :
                 last.extra_vec[i] = IF i = f THEN extra_budget ELSE 0
           /\ \A i \in Debts :
                 last.total_pay[i] =
                     d[i].Payment + d[i].Extra
                         + (IF i = f THEN extra_budget ELSE 0)
           /\ Cardinality({i \in Debts : last.extra_vec[i] # 0}) <= 1
           /\ history[month].FocusDebt = (IF f = 0 THEN "" ELSE dframe[f].Name)

\* the focus skipped a debt that sorts first but is already <= 0.01
C5_Witness ==
    /\ Simulated
    /\ extra_budget > 0
    /\ \E j \in Debts :
          /\ last.prevBal[j] <= THRESH
          /\ last.focus # 0 /\ last.focus # j
          /\ strategy = Snowball
          /\ last.extra_vec[last.focus] = extra_budget

TwoDebtRun(k) ==
    (IsTwoDebtScenario /\ pc # "start") =>
        /\ d[1].Payment = 25000
        /\ (Simulated /\ last.prevBal[1] > THRESH) =>
              /\ last.focus = 1
              /\ last.extra_vec = <<200000, 0>>
              /\ last.total_pay[1] = 225000
              /\ history[month].FocusDebt = "A"
        /\ month >= k => d[1].Balance <= THRESH
        /\ (Simulated /\ last.prevBal[1] <= THRESH /\ last.prevBal[2] > THRESH) =>
              /\ last.focus = 2
              /\ last.extra_vec = <<0, 200000>>
              /\ history[month].FocusDebt = "B"

\* C7 as stated: A is paid off after at most 2 simulated months.
C7_PaidWithinTwo == TwoDebtRun(2)

\* C7 amended: A is paid off after at most 3 simulated months (225, 225 and
\* the remaining 50); the rest as stated.
C7_PaidWithinThree == TwoDebtRun(3)

\* the focus has moved from A to B
C7_Witness ==
    /\ IsTwoDebtScenario
    /\ month >= 4
    /\ d[1].Balance = 0
    /\ last.focus = 2
    /\ history[1].FocusDebt = "A"
    /\ history[month].FocusDebt = "B"

\* the total balance never grows by more than the month's interest
TotalGrowthBounded ==
    \A n \in 1..(Len(history) - 1) :
        history[n + 1].TotalBalance <=
            history[n].TotalBalance + history[n + 1].TotalInterest

\* C8 as stated: total balance grows at most by the month's interest, and a
\* debt with balance > 0 is always paid at least its minimum payment.
C8_AtLeastMinimum ==
    /\ TotalGrowthBounded
    /\ Simulated =>
          \A i \in Debts :
              last.prevBal[i] > 0 => last.applied[i] >= d[i].Payment

\* C8 amended: a debt with balance > 0 is paid at least the smaller of its
\* minimum payment and its balance plus the month's interest.
C8_AtLeastMinimumOrPayoff ==
    /\ TotalGrowthBounded
    /\ Simulated =>
          \A i \in Debts :
              last.prevBal[i] > 0 =>
                  last.applied[i] >=
                      Min(d[i].Payment, last.prevBal[i] + last.interest[i])

\* a debt was paid off with less than its minimum payment, in the second
\* month or later
C8_Witness ==
    /\ month >= 2
    /\ \E i \in Debts :
          /\ last.prevBal[i] > 0
          /\ last.applied[i] < d[i].Payment
          /\ last.applied[i] = last.prevBal[i] + last.interest[i]

\* the single debt's monthly payment exceeds the interest on its initial
\* balance: payment > balance * rate / 12
PaysMoreThanInterest ==
    (d[1].Payment + d[1].Extra + extra_budget) * 1200
        > dframe[1].Balance * dframe[1].Rate

\* months that certainly suffice: each month the balance falls by at least
\* payment - initial interest
EnoughMonths ==
    (dframe[1].Balance * 1200)
        \div ((d[1].Payment + d[1].Extra + extra_budget) * 1200
                 - dframe[1].Balance * dframe[1].Rate) + 1

\* C9: a single debt paying more than the interest on its initial balance
\* has a strictly decreasing balance, is paid when max_months is large
\* enough, and then the loop stops before max_months; for 1200 at 12% with
\* Payment 100 month 1 has interest 12, applied 100, new balance 1112, and
\* the schedule has fewer than 600 records with the debt marked paid.
C9_SingleDebtPayoff ==
    /\ (Len(dframe) = 1 /\ pc # "start" /\ PaysMoreThanInterest) =>
          /\ Simulated => d[1].Balance < last.prevBal[1]
          /\ (pc = "done" /\ max_months >= EnoughMonths) => result[1].IsPaid
          /\ (pc = "done" /\ max_months > EnoughMonths) =>
                Len(history) < max_months
    /\ IsOneDebtScenario =>
          /\ month = 1 =>
                /\ last.interest = <<12000>>
                /\ last.applied = <<100000>>
                /\ d[1].Balance = 1112000
          /\ pc = "done" =>
                /\ Len(history) < DefaultMaxMonths
                /\ result[1].IsPaid

\* the 1200 debt has been paid off in the scenario
C9_Witness ==
    /\ IsOneDebtScenario
    /\ pc = "done"
    /\ month > 1
    /\ result[1].IsPaid

RECURSIVE SumField(_, _, _)
SumField(h, n, field) ==
    IF n = 0 THEN 0 ELSE h[n][field] + SumField(h, n - 1, field)

\* C10: Total Balance[n] = Total Balance[n-1] + Total Interest[n] - Total
\* Payment[n], starting from the sum of the input balances; so the sum of the
\* ending balances is the input sum plus all interest minus all payments.
C10_Accounting ==
    /\ \A n \in 1..Len(history) :
          history[n].TotalBalance =
              (IF n = 1 THEN Sum(Balances(dframe))
                        ELSE history[n - 1].TotalBalance)
                  + history[n].TotalInterest - history[n].TotalPayment
    /\ pc = "done" =>
          Sum([i \in Debts |-> result[i].EndingBalance]) =
              Sum(Balances(dframe))
                  + SumField(history, Len(history), "TotalInterest")
                  - SumField(history, Len(history), "TotalPayment")

\* interest accrued and a payment was cut down by the overpay cap
C10_Witness ==
    /\ pc = "done"
    /\ month >= 2
    /\ history[month].TotalInterest > 0
    /\ \E i \in Debts :
          last.total_pay[i] > last.prevBal[i] + last.interest[i]
====
